---- MODULE Spec2Model ----
(***************************************************************************)
(* A model of the EVM bytecode interpreter of src/main.cpp: the execution  *)
(* context (program counter, bytecode, operand stack, memory), the opcode  *)
(* handlers and the dispatch loop of Interpreter::Interpret.               *)
(*                                                                         *)
(* Representation.  A word_t (intx::uint256) is the sequence of its bytes  *)
(* from the least significant one, w[1], up to its most significant        *)
(* non-zero byte (the zero word is the empty sequence); as_bytes expands   *)
(* it to the 32 bytes of the object on a little-endian host.  A size_t     *)
(* is a natural number below SizeCap; every size_t at or above SizeCap is  *)
(* represented by SizeCap itself, which is sound because the code only     *)
(* compares a size_t with the bytecode length and the memory capacity,     *)
(* both far below SizeCap.  The memory array is the function from the      *)
(* indices of its non-zero bytes to those bytes (every other byte is 0).   *)
(***************************************************************************)
EXTENDS Integers, Sequences, FiniteSets, TLC

VARIABLES program_counter, bytecode, stack, memory, status, fault, fetched, last_store, ub,
          loads, calls

vars == <<program_counter, bytecode, stack, memory, status, fault, fetched, last_store, ub,
          loads, calls>>

(***************************************************************************)
(* Program constants                                                       *)
(***************************************************************************)
kWordSize == 32
kByteSize == 8
kMaxStackWordsSize == 1024
kMaxStackSize == kMaxStackWordsSize * 8
kMemorySize == 100000

kShl == \h1b
kMLoad == \h51
kMStore == \h52
kJump == \h56
kJumpDest == \h5b
kPush0 == \h5f
kPush1 == \h60
kPush2 == \h61
kPush12 == \h6b
kDup2 == \h81
kDup3 == \h82
kSwap1 == \h90

\* advance_by of every opcode that has an entry in the table
kOpcodeInfo ==
  [op \in {kMLoad, kJump, kDup3, kPush2, kPush0, kPush12, kPush1, kMStore, kSwap1, kDup2, kShl} |->
     CASE op = kPush1 -> 1
       [] op = kPush2 -> 2
       [] op = kPush12 -> 12
       [] OTHER -> 0]

\* every size_t value >= SizeCap is represented by SizeCap
SizeCap == 16777216

(***************************************************************************)
(* Bounds of the model                                                     *)
(***************************************************************************)
MaxLen == 3
MaxLoopLen == 5
MaxInitStack == 3
MaxLoads == 2
MaxCalls == 2

\* byte values a read outside an object may return
GarbageBytes == {0, 255}

(***************************************************************************)
(* word_t                                                                  *)
(***************************************************************************)
Bytes == 0..255

\* Op applied to the value of e, which is evaluated once
Eval(Op(_), e) == CHOOSE r \in {Op(v) : v \in {e}} : TRUE

\* the sequence with the elements of function f on 1..n, as a tuple
AsTuple(f, n) == SubSeq(f, 1, n)

\* the number of bytes of t up to its last non-zero byte
SigLen(t) ==
  IF \A i \in 1..Len(t) : t[i] = 0 THEN 0
  ELSE CHOOSE i \in 1..Len(t) : t[i] # 0 /\ \A j \in (i + 1)..Len(t) : t[j] = 0

\* the word whose little-endian bytes are bytes (at most kWordSize of them)
WordLE(bytes) == Eval(LAMBDA t : SubSeq(t, 1, SigLen(t)), bytes)

\* byte i of a word, 1 being the least significant
Byte(w, i) == IF 1 <= i /\ i <= Len(w) THEN w[i] ELSE 0

\* the word given by its kWordSize bytes f[1] .. f[kWordSize]
Word32(f) == WordLE(AsTuple(f, kWordSize))

ZeroWord == <<>>

Pow2(n) == IF n = 0 THEN 1 ELSE IF n = 1 THEN 2 ELSE IF n = 2 THEN 4 ELSE IF n = 3 THEN 8
           ELSE IF n = 4 THEN 16 ELSE IF n = 5 THEN 32 ELSE IF n = 6 THEN 64
           ELSE IF n = 7 THEN 128 ELSE 256

Reverse(seq) ==
  Eval(LAMBDA t : AsTuple([i \in 1..Len(t) |-> t[Len(t) + 1 - i]], Len(t)), seq)

\* word << s for a machine shift amount 0 <= s < 256
ShlBits(word, s) ==
  LET q == s \div kByteSize
      r == s % kByteSize
  IN Eval(LAMBDA w : Word32([i \in 1..kWordSize |->
                               ((Byte(w, i - q) * Pow2(r)) % 256)
                               + (Byte(w, i - q - 1) \div Pow2(kByteSize - r))]),
          word)

\* word | byte, for a word whose low byte is zero (the only use in the code)
OrByte(word, b) ==
  Eval(LAMBDA w : Word32([i \in 1..kWordSize |-> IF i = 1 THEN Byte(w, 1) + b ELSE Byte(w, i)]),
       word)

\* the loop of to_uint256 from byte i on
RECURSIVE FoldBytes(_, _, _)
FoldBytes(word, byte_array, i) ==
  IF i > Len(byte_array) THEN word
  ELSE Eval(LAMBDA next : FoldBytes(next, byte_array, i + 1),
            OrByte(ShlBits(word, kByteSize), byte_array[i]))

to_uint256_LittleEndian(byte_array) == WordLE(byte_array)

\* to_uint256: the caller never passes more than kWordSize bytes
to_uint256(byte_array) == Eval(LAMBDA t : FoldBytes(ZeroWord, t, 1), byte_array)

\* intx::as_bytes: the kWordSize bytes of the object, least significant first
as_bytes(value) ==
  Eval(LAMBDA w : AsTuple([i \in 1..kWordSize |-> Byte(w, i)], kWordSize), value)

\* static_cast<std::size_t>(word): the low 64 bits
SizeT(word) ==
  Eval(LAMBDA w : IF \A i \in 4..8 : Byte(w, i) = 0
                    THEN Byte(w, 1) + 256 * Byte(w, 2) + 65536 * Byte(w, 3)
                    ELSE SizeCap,
       word)

ShiftLeftWord_Wrapping(value, shift) == ShlBits(value, Byte(shift, 1))

\* intx operator<<(uint256, uint256): zero when shift >= 256
ShiftLeftWord(value, shift) ==
  IF \E i \in 2..kWordSize : Byte(shift, i) # 0 THEN ZeroWord ELSE ShlBits(value, Byte(shift, 1))

(***************************************************************************)
(* memory_t                                                                *)
(***************************************************************************)
ZeroMemory == [i \in {} |-> 0]

MemAt(mem, i) == IF i \in DOMAIN mem THEN mem[i] ELSE 0

MemWrite_Aligned(mem, offset, bytes) ==
  LET aligned == offset - (offset % kWordSize)
      Written(t) ==
        LET idx == {i \in aligned..(aligned + Len(t) - 1) : i < kMemorySize}
            new(i) == IF i \in idx THEN t[i - aligned + 1] ELSE mem[i]
            dom == {i \in (DOMAIN mem) \cup idx : new(i) # 0}
        IN [i \in dom |-> new(i)]
  IN Eval(Written, bytes)

\* copy bytes to mem[offset ..], keeping only what lies inside the array
MemWrite(mem, offset, bytes) ==
  LET Written(t) ==
        LET idx == {i \in offset..(offset + Len(t) - 1) : i < kMemorySize}
            new(i) == IF i \in idx THEN t[i - offset + 1] ELSE mem[i]
            dom == {i \in (DOMAIN mem) \cup idx : new(i) # 0}
        IN [i \in dom |-> new(i)]
  IN Eval(Written, bytes)

(***************************************************************************)
(* ExecutionContext and the outcome of a handler call                      *)
(***************************************************************************)
Ctx == [program_counter |-> program_counter, bytecode |-> bytecode,
        stack |-> stack, memory |-> memory]

\* exc: "none" (the handler returned), a RevertError carried by a
\* std::runtime_error, "out_of_range" (std::out_of_range), or "crash" (the
\* process died in undefined behaviour).  ub: the call had undefined behaviour.
Outcome(ctx, exc, ub_hit) == [ctx |-> ctx, exc |-> exc, ub |-> ub_hit]

Top(s) == s[Len(s)]
Pop(s) == SubSeq(s, 1, Len(s) - 1)

(***************************************************************************)
(* Opcode handlers.  Each maps a context to the set of its possible        *)
(* outcomes; the set has one element unless the call has undefined         *)
(* behaviour.                                                              *)
(***************************************************************************)
\* the stack after a push, with the overflow check that follows the push
PushChecked(ctx, item, ub_hit) ==
  LET pushed == [ctx EXCEPT !.stack = Append(ctx.stack, item)]
  IN IF Len(pushed.stack) > kMaxStackSize
       THEN Outcome(pushed, "StackOverflow", ub_hit)
       ELSE Outcome(pushed, "none", ub_hit)

PushToStack(num_bytes, ctx) ==
  LET first == ctx.program_counter + 1
      inside == first + num_bytes <= Len(ctx.bytecode)
      \* the bytes at offsets first .. first+num_bytes-1; g stands for what
      \* lies behind the end of the bytecode buffer
      raw(g) == [i \in 1..num_bytes |->
                   IF first + i <= Len(ctx.bytecode) THEN ctx.bytecode[first + i] ELSE g]
  IN IF num_bytes = 0 THEN {PushChecked(ctx, ZeroWord, FALSE)}
     ELSE IF inside THEN {PushChecked(ctx, to_uint256(raw(0)), FALSE)}
     ELSE {PushChecked(ctx, to_uint256(raw(g)), TRUE) : g \in GarbageBytes}
          \cup {Outcome(ctx, "crash", TRUE)}

Jump_AnyTarget(ctx) ==
  IF Len(ctx.stack) < 1 THEN {Outcome(ctx, "StackUnderflow", FALSE)}
  ELSE LET moved == [ctx EXCEPT !.stack = Pop(ctx.stack),
                                !.program_counter = SizeT(Top(ctx.stack))]
       IN IF moved.program_counter >= Len(moved.bytecode)
            THEN {Outcome(moved, "out_of_range", FALSE)}
            ELSE {Outcome(moved, "none", FALSE)}

Jump(ctx) ==
  IF Len(ctx.stack) < 1 THEN {Outcome(ctx, "StackUnderflow", FALSE)}
  ELSE LET counter == Top(ctx.stack)
           moved == [ctx EXCEPT !.stack = Pop(ctx.stack),
                                !.program_counter = SizeT(counter)]
       IN IF moved.program_counter >= Len(moved.bytecode)
            THEN {Outcome(moved, "out_of_range", FALSE)}
          ELSE IF moved.bytecode[moved.program_counter + 1] # kJumpDest
            THEN {Outcome(moved, "InvalidJump", FALSE)}
          ELSE {Outcome(moved, "none", FALSE)}

StoredBytes_NoReverse(value) == as_bytes(value)

\* value_bytes_span | std::views::reverse: the bytes in the order they are stored
StoredBytes(value) == Reverse(as_bytes(value))

StoreToMemory_PopFirst(ctx) ==
  IF Len(ctx.stack) < 1 THEN {Outcome(ctx, "StackUnderflow", FALSE)}
  ELSE LET offset == SizeT(Top(ctx.stack))
           popped1 == [ctx EXCEPT !.stack = Pop(ctx.stack)]
       IN IF Len(popped1.stack) < 1 THEN {Outcome(popped1, "StackUnderflow", FALSE)}
          ELSE LET value == Top(popped1.stack)
                   popped == [popped1 EXCEPT !.stack = Pop(popped1.stack)]
                   stored == [popped EXCEPT !.memory = MemWrite(ctx.memory, offset, StoredBytes(value))]
               IN IF offset + kWordSize <= kMemorySize
                    THEN {Outcome(stored, "none", FALSE)}
                    ELSE {Outcome(stored, "none", TRUE), Outcome(popped, "crash", TRUE)}

StoreToMemory(ctx) ==
  IF Len(ctx.stack) < 2 THEN {Outcome(ctx, "StackUnderflow", FALSE)}
  ELSE LET offset == SizeT(Top(ctx.stack))
           value == Top(Pop(ctx.stack))
           popped == [ctx EXCEPT !.stack = Pop(Pop(ctx.stack))]
           stored == [popped EXCEPT !.memory = MemWrite(ctx.memory, offset, StoredBytes(value))]
       IN IF offset + kWordSize <= kMemorySize
            THEN {Outcome(stored, "none", FALSE)}
            \* the copy runs past the end of the array
            ELSE {Outcome(stored, "none", TRUE), Outcome(popped, "crash", TRUE)}

LoadFromMemory(ctx) ==
  IF Len(ctx.stack) < 1 THEN {Outcome(ctx, "StackUnderflow", FALSE)}
  ELSE LET offset == SizeT(Top(ctx.stack))
           popped == [ctx EXCEPT !.stack = Pop(ctx.stack)]
           \* g stands for what lies behind the end of the array
           value_span(g) == [i \in 1..kWordSize |->
                               IF offset + i - 1 < kMemorySize
                                 THEN MemAt(ctx.memory, offset + i - 1) ELSE g]
           loaded(g) == [popped EXCEPT !.stack = Append(popped.stack, to_uint256(value_span(g)))]
       IN IF offset + kWordSize <= kMemorySize
            THEN {Outcome(loaded(0), "none", FALSE)}
            ELSE {Outcome(loaded(g), "none", TRUE) : g \in GarbageBytes}
                 \cup {Outcome(popped, "crash", TRUE)}

SwapStackValues(ctx) ==
  IF Len(ctx.stack) < 2 THEN {Outcome(ctx, "StackUnderflow", FALSE)}
  ELSE LET first == Top(ctx.stack)
           second == Top(Pop(ctx.stack))
       IN {Outcome([ctx EXCEPT !.stack = Append(Append(Pop(Pop(ctx.stack)), first), second)],
                   "none", FALSE)}

DuplicateStackValue_Front(idx, ctx) ==
  IF Len(ctx.stack) = 0 THEN {Outcome(ctx, "crash", TRUE)}
  ELSE {PushChecked(ctx, Top(ctx.stack), Len(ctx.stack) < idx)}

DuplicateStackValue(idx, ctx) ==
  IF Len(ctx.stack) >= idx
    THEN LET n == Len(ctx.stack)
             \* stack_contents_window[i] is the i-th item from the top
             stack_contents_window == [i \in 1..idx |-> ctx.stack[n + 1 - i]]
             restored == SubSeq(ctx.stack, 1, n - idx) \o Reverse(stack_contents_window)
         IN {PushChecked([ctx EXCEPT !.stack = restored], stack_contents_window[idx], FALSE)}
    \* top() and pop() on an empty std::stack: the missing items are
    \* whatever lies before the first element
    ELSE {PushChecked(ctx, Word32([i \in 1..kWordSize |-> g]), TRUE) : g \in GarbageBytes}
         \cup {Outcome(ctx, "crash", TRUE)}

ShiftLeft(ctx) ==
  IF Len(ctx.stack) < 2 THEN {Outcome(ctx, "StackUnderflow", FALSE)}
  ELSE LET shift == Top(ctx.stack)
           value == Top(Pop(ctx.stack))
       IN {Outcome([ctx EXCEPT !.stack = Append(Pop(Pop(ctx.stack)), ShiftLeftWord(value, shift))],
                   "none", FALSE)}

\* kOpcodeHandlers.at(opcode)(ctx); .at throws std::out_of_range on a byte
\* that has no handler
kOpcodeHandlers(opcode, ctx) ==
  CASE opcode = kJump -> Jump(ctx)
    [] opcode = kDup3 -> DuplicateStackValue(3, ctx)
    [] opcode = kPush2 -> PushToStack(2, ctx)
    [] opcode = kPush0 -> PushToStack(0, ctx)
    [] opcode = kMLoad -> LoadFromMemory(ctx)
    [] opcode = kShl -> ShiftLeft(ctx)
    [] opcode = kPush12 -> PushToStack(12, ctx)
    [] opcode = kPush1 -> PushToStack(1, ctx)
    [] opcode = kMStore -> StoreToMemory(ctx)
    [] opcode = kSwap1 -> SwapStackValues(ctx)
    [] opcode = kDup2 -> DuplicateStackValue(2, ctx)
    [] OTHER -> {Outcome(ctx, "out_of_range", FALSE)}

(***************************************************************************)
(* Interpreter::Interpret: the dispatch loop                               *)
(***************************************************************************)
LoopCondition(ctx) == ctx.program_counter < Len(ctx.bytecode)

\* the byte the loop fetches
Opcode == bytecode[program_counter + 1]

Advance_NoIncrement(ctx, opcode) ==
  [ctx EXCEPT !.program_counter = @ + kOpcodeInfo[opcode]]

Advance_JumpStays(ctx, opcode) ==
  IF opcode = kJump THEN ctx
  ELSE [ctx EXCEPT !.program_counter = @ + 1 + kOpcodeInfo[opcode]]

Advance_NoImmediates(ctx, opcode) ==
  [ctx EXCEPT !.program_counter = @ + 1]

\* program_counter++ and program_counter += advance_by, after the handler returned
Advance(ctx, opcode) ==
  [ctx EXCEPT !.program_counter = @ + 1 + kOpcodeInfo[opcode]]

\* what the catch clauses report: std::out_of_range is reported as an
\* unrecognized opcode, a std::runtime_error by its RevertError
Reported(exc, opcode) ==
  CASE exc \in {"none", "crash"} -> "None"
    [] exc = "out_of_range" -> "UnrecognizedOpcode"
    [] OTHER -> exc

NoStore == [offset |-> <<>>, value |-> <<>>]

\* one iteration of the loop on the fetched opcode, with outcome r of the handler
Iterate(opcode, r) ==
  LET after == IF r.exc = "none" THEN Advance(r.ctx, opcode) ELSE r.ctx
  IN /\ program_counter' = after.program_counter
     /\ bytecode' = after.bytecode
     /\ stack' = after.stack
     /\ memory' = after.memory
     /\ status' = CASE r.exc = "none" -> "Running"
                    [] r.exc = "crash" -> "Crashed"
                    [] OTHER -> "Aborted"
     /\ fault' = Reported(r.exc, opcode)
     /\ fetched' = program_counter
     /\ last_store' = IF opcode = kMStore /\ r.exc = "none"
                        THEN [offset |-> Top(stack), value |-> Top(Pop(stack))]
                        ELSE last_store
     /\ ub' = (ub \/ r.ub)
     /\ UNCHANGED <<loads, calls>>

Dispatch(opcode) ==
  /\ status = "Running"
  /\ LoopCondition(Ctx)
  /\ Opcode = opcode
  /\ \E r \in kOpcodeHandlers(opcode, Ctx) : Iterate(opcode, r)

StepPush0 == Dispatch(kPush0)
StepPush1 == Dispatch(kPush1)
StepPush2 == Dispatch(kPush2)
StepPush12 == Dispatch(kPush12)
StepDup2 == Dispatch(kDup2)
StepDup3 == Dispatch(kDup3)
StepSwap1 == Dispatch(kSwap1)
StepShl == Dispatch(kShl)
StepMLoad == Dispatch(kMLoad)
StepMStore == Dispatch(kMStore)
StepJump == Dispatch(kJump)

\* a byte without a handler
StepUnrecognized == \E opcode \in Bytes \ DOMAIN kOpcodeInfo : Dispatch(opcode)

\* the loop condition fails and Interpret returns
Halt ==
  /\ status = "Running"
  /\ ~LoopCondition(Ctx)
  /\ status' = "Halted"
  /\ UNCHANGED <<program_counter, bytecode, stack, memory, fault, fetched, last_store, ub,
                 loads, calls>>

Next ==
  \/ StepPush0 \/ StepPush1 \/ StepPush2 \/ StepPush12
  \/ StepDup2 \/ StepDup3 \/ StepSwap1 \/ StepShl
  \/ StepMLoad \/ StepMStore \/ StepJump
  \/ StepUnrecognized
  \/ Halt

(***************************************************************************)
(* The public operations of Interpreter, called one after the other on the *)
(* same object.  status is "Idle" while no Interpret call has been made    *)
(* since construction or since the last LoadBytecode; loads counts the     *)
(* LoadBytecode calls and calls the Interpret calls since the last load.   *)
(***************************************************************************)
\* LoadBytecode: bytecode.clear() and the assignment of the bytes the file
\* spells (none when the file is empty); no other member is written
LoadBytecode(bc) ==
  /\ status \in {"Idle", "Halted", "Aborted"}
  /\ loads < MaxLoads
  /\ bytecode' = bc
  /\ status' = "Idle"
  /\ loads' = loads + 1
  /\ calls' = 0
  /\ UNCHANGED <<program_counter, stack, memory, fault, fetched, last_store, ub>>

\* a call of Interpret enters the loop on m_execution_context as it stands
Interpret ==
  /\ status \in {"Idle", "Halted", "Aborted"}
  /\ calls < MaxCalls
  /\ status' = "Running"
  /\ calls' = calls + 1
  /\ fault' = "None"
  /\ fetched' = -1
  /\ UNCHANGED <<program_counter, bytecode, stack, memory, last_store, ub, loads>>

(***************************************************************************)
(* Programs                                                                *)
(***************************************************************************)
SeqsUpTo(S, n) == UNION {[1..k -> S] : k \in 0..n}

Alphabet == {\h00, \h01, \h02, kShl, kMLoad, kMStore, kJump, kJumpDest, kPush0, kPush1,
             kPush2, kPush12, kDup2, kDup3, kSwap1, \hff}

StoreLoad == <<kPush1, \h0a, kPush1, \h00, kMStore, kPush1, \h00, kMLoad>>
Push12Bytes == <<\h01, \h02, \h03, \h04, \h05, \h06, \h07, \h08, \h09, \h0a, \h0b, \h0c>>

\* a jump to offset 1, the first immediate byte of the PUSH2 at offset 0
JumpIntoPush == <<kPush2, kJumpDest, kPush1, kPush1, \h01, kJump>>

\* PUSH12 of 2^64 + 14, JUMP at offset 13, JUMPDEST at offset 14
JumpWide ==
  <<kPush12, \h00, \h00, \h00, \h01, \h00, \h00, \h00, \h00, \h00, \h00, \h00, \h0e,
    kJump, kJumpDest>>

Scenarios ==
  { StoreLoad,
    <<\h00>>,
    <<kPush1, \hff>>,
    <<kPush2, \h01, \h02>>,
    <<kPush12>> \o Push12Bytes,
    <<kPush12>> \o Push12Bytes \o <<kPush1, \h07, kMStore, kPush1, \h07, kMLoad>>,
    <<kPush1, \h05, kJump>>,
    <<kPush1, \h03, kJump, kJumpDest, kPush0>>,
    <<kPush1, \h04, kJump, \h00, kJumpDest, kPush1, \hff>>,
    <<kPush1, kJumpDest, kPush1, \h01, kJump>>,
    <<kPush1, \h00, kJump>>,
    <<kPush1, \h01, kPush1, \hff, kShl>>,
    <<kPush1, \h01, kPush2, \h01, \h00, kShl>>,
    <<kPush1, \h01, kPush1, \h02, kPush1, \h03, kDup3, kDup2, kSwap1>>,
    <<kPush1, \h01, kPush1, \h01, kPush1, \h18, kShl, kMStore>>,
    <<kPush2, \hff, \hff, kPush1, \h08, kShl, kMLoad>>,
    JumpIntoPush,
    JumpWide }

Programs == SeqsUpTo(Alphabet, MaxLen) \cup Scenarios

LoopAlphabet == {kPush1, kJumpDest, kJump, kSwap1, \h01}
LoopPrograms == SeqsUpTo(LoopAlphabet, MaxLoopLen) \cup Scenarios

\* loops that add one word to the stack on every turn, by PUSH0 and by DUP2
DeepPrograms ==
  { <<kPush1, kJumpDest, kPush0, kPush1, \h01, kJump>>,
    <<kPush0, kPush1, kJumpDest, kDup2, kPush1, \h02, kJump>> }
  \cup Scenarios

WordSamples ==
  { ZeroWord,
    WordLE(<<1>>),
    WordLE(<<255>>),
    WordLE(<<0, 1>>),
    WordLE(<<\h80, \h86, \h01>>),
    WordLE(<<1, 0, 0, 0, 0, 0, 0, 0, 1>>),
    Word32([i \in 1..kWordSize |-> IF i = kWordSize THEN \h81 ELSE \h35 + i]) }

\* two stores, the second one at offset 1
StoreTwice == <<kMStore, kPush1, \h01, kMStore>>

OpPrograms ==
  {<<op>> : op \in (DOMAIN kOpcodeInfo) \cup {\h00, kJumpDest}}
  \cup {<<kMStore, kMLoad>>, StoreTwice, <<kPush1, \h07>>, <<kPush2, \h01, \h02>>, <<kPush12>> \o Push12Bytes,
        StoreLoad}

InitStacks == SeqsUpTo(WordSamples, MaxInitStack)

\* the files loaded into an Interpreter that is used more than once
ReusePrograms == Scenarios \cup {<<>>}

(***************************************************************************)
(* Specifications                                                          *)
(***************************************************************************)
\* a constructed Interpreter whose bytecode has been loaded, entering Interpret
Fresh ==
  /\ program_counter = 0
  /\ stack = <<>>
  /\ memory = ZeroMemory
  /\ status = "Running"
  /\ fault = "None"
  /\ fetched = -1
  /\ last_store = NoStore
  /\ ub = FALSE
  /\ loads = 1
  /\ calls = 1

Init == bytecode \in Programs /\ Fresh

Spec == Init /\ [][Next]_vars

\* programs that fill the stack
InitDeep == bytecode \in DeepPrograms /\ Fresh

SpecDeep == InitDeep /\ [][Next]_vars

\* programs of jumps; the loop of Interpret runs without interruption
InitLoop == bytecode \in LoopPrograms /\ Fresh

FairSpec == InitLoop /\ [][Next]_vars /\ WF_vars(Next)

\* an instruction met in the middle of a run, on a stack of sample words
InitOps ==
  /\ bytecode \in OpPrograms
  /\ program_counter = 0
  /\ stack \in InitStacks
  /\ memory = ZeroMemory
  /\ status = "Running"
  /\ fault = "None"
  /\ fetched = -1
  /\ last_store = NoStore
  /\ ub = FALSE
  /\ loads = 1
  /\ calls = 1

SpecOps == InitOps /\ [][Next]_vars

\* Interpreter interpreter{}: the members as their initializers leave them
InitReuse ==
  /\ program_counter = 0
  /\ bytecode = <<>>
  /\ stack = <<>>
  /\ memory = ZeroMemory
  /\ status = "Idle"
  /\ fault = "None"
  /\ fetched = -1
  /\ last_store = NoStore
  /\ ub = FALSE
  /\ loads = 0
  /\ calls = 0

NextReuse ==
  \/ \E bc \in ReusePrograms : LoadBytecode(bc)
  \/ Interpret
  \/ Next

\* LoadBytecode and Interpret called repeatedly on one Interpreter
SpecReuse == InitReuse /\ [][NextReuse]_vars

Terminal == status \in {"Halted", "Aborted", "Crashed"}

TypeOK ==
  /\ program_counter \in 0..SizeCap
  /\ \A i \in 1..Len(stack) :
       /\ Len(stack[i]) <= kWordSize
       /\ \A j \in 1..Len(stack[i]) : stack[i][j] \in Bytes
       /\ stack[i] = <<>> \/ stack[i][Len(stack[i])] # 0
  /\ DOMAIN memory \subseteq 0..(kMemorySize - 1)
  /\ \A i \in DOMAIN memory : memory[i] \in 1..255
  /\ status \in {"Idle", "Running", "Halted", "Aborted", "Crashed"}
  /\ fault \in {"None", "UnrecognizedOpcode", "StackOverflow", "StackUnderflow", "InvalidJump"}
  /\ loads \in 0..MaxLoads
  /\ calls \in 0..MaxCalls

(***************************************************************************)
(* Properties                                                              *)
(***************************************************************************)
\* the loop is about to fetch and dispatch a byte
Fetching == status = "Running" /\ LoopCondition(Ctx)

PushOpcodes == {kPush0, kPush1, kPush2, kPush12}

\* the unsigned value of a word below 2^24, and -1 for a larger word
SmallValue(w) ==
  IF Len(w) <= 3 THEN Byte(w, 1) + 256 * Byte(w, 2) + 65536 * Byte(w, 3) ELSE -1

\* C1: the operand stack never holds more than 1024 words, in any state of
\* any run, the state left by an aborted run included.
C1_StackAtMost1024 == Len(stack) <= kMaxStackWordsSize

\* C2: a push dispatched below depth 1024 does not fault with StackOverflow,
\* and a push dispatched at depth exactly 1024 faults with StackOverflow and
\* ends the run Aborted.
C2_PushAt1024Overflows ==
  [][(Fetching /\ Opcode \in PushOpcodes) =>
       /\ Len(stack) < kMaxStackWordsSize => fault' # "StackOverflow"
       /\ Len(stack) = kMaxStackWordsSize => (status' = "Aborted" /\ fault' = "StackOverflow")]_vars

\* C3: SWAP1, SHL or MSTORE dispatched on fewer than 2 items, and JUMP or
\* MLOAD dispatched on an empty stack, abort the run with StackUnderflow and
\* leave stack, memory, bytecode and program_counter as they were.
C3_UnderflowLeavesState ==
  [][(/\ Fetching
      /\ \/ Opcode \in {kSwap1, kShl, kMStore} /\ Len(stack) < 2
         \/ Opcode \in {kJump, kMLoad} /\ Len(stack) = 0)
       => /\ status' = "Aborted"
          /\ fault' = "StackUnderflow"
          /\ UNCHANGED <<stack, memory, bytecode, program_counter>>]_vars

C3_Witness ==
  /\ status = "Aborted"
  /\ fault = "StackUnderflow"
  /\ fetched = program_counter
  /\ bytecode[fetched + 1] = kMStore
  /\ Len(stack) = 1

\* the loop is about to dispatch a JUMP that directly follows the PUSH1 it
\* has just executed
JumpAfterPush1 ==
  /\ Fetching
  /\ Opcode = kJump
  /\ program_counter >= 2
  /\ fetched = program_counter - 2
  /\ bytecode[fetched + 1] = kPush1

\* C4: PUSH1 k, JUMP with k inside the bytecode: when the byte at offset k is
\* JUMPDEST the jump succeeds and the loop goes on at offset k+1, otherwise
\* the run aborts with InvalidJump.
C4_JumpValidity ==
  [][(JumpAfterPush1 /\ bytecode[program_counter] < Len(bytecode)) =>
       LET k == bytecode[program_counter]
       IN IF bytecode[k + 1] = kJumpDest
            THEN status' = "Running" /\ fault' = "None" /\ program_counter' = k + 1
            ELSE status' = "Aborted" /\ fault' = "InvalidJump"]_vars

C4_Witness ==
  /\ status = "Running"
  /\ fault = "None"
  /\ fetched >= 2
  /\ bytecode[fetched + 1] = kJump
  /\ bytecode[fetched - 1] = kPush1
  /\ bytecode[bytecode[fetched] + 1] = kJumpDest
  /\ program_counter = bytecode[fetched] + 1
  /\ LoopCondition(Ctx)

\* C5: an MLOAD at the offset of the last MSTORE, the 32 bytes lying inside
\* the memory, pushes the word that MSTORE stored; and the bytecode
\* 60 0a 60 00 52 60 00 51 ends Halted with 10 on top of the stack.
C5_StoreLoadRoundTrip ==
  [][/\ (/\ Fetching
         /\ Opcode = kMLoad
         /\ Len(stack) >= 1
         /\ last_store # NoStore
         /\ Top(stack) = last_store.offset
         /\ SizeT(Top(stack)) + kWordSize <= kMemorySize)
        => /\ status' = "Running"
           /\ Len(stack') = Len(stack)
           /\ Top(stack') = last_store.value
     /\ (bytecode = StoreLoad /\ status' # "Running")
        => /\ status' = "Halted"
           /\ Len(stack') >= 1
           /\ SmallValue(Top(stack')) = 10]_vars

C5_Witness ==
  /\ status \in {"Running", "Halted"}
  /\ ~ub
  /\ fetched >= 0
  /\ bytecode[fetched + 1] = kMLoad
  /\ last_store # NoStore
  /\ SizeT(last_store.offset) % kWordSize # 0
  /\ Len(stack) >= 1
  /\ Top(stack) = last_store.value
  /\ \A i \in 1..kWordSize : Byte(last_store.value, i) # 0
  /\ \A i \in 1..kWordSize :
       MemAt(memory, SizeT(last_store.offset) + i - 1) = Byte(last_store.value, kWordSize + 1 - i)

\* C6: the fault reported by a step is UnrecognizedOpcode exactly when the
\* fetched byte has no entry in the opcode table, and such a step aborts the
\* run and leaves the execution state as it was.
C6_UnrecognizedIffUnlisted ==
  [][Fetching =>
       /\ (fault' = "UnrecognizedOpcode") <=> (Opcode \notin DOMAIN kOpcodeInfo)
       /\ (Opcode \notin DOMAIN kOpcodeInfo) =>
            /\ status' = "Aborted"
            /\ UNCHANGED <<stack, memory, bytecode, program_counter>>]_vars

\* C7: a PUSHn whose n immediate bytes lie inside the bytecode pushes the
\* word that those bytes spell in big-endian order, zero above them; PUSH0
\* pushes zero, PUSH1 b pushes b and PUSH2 a b pushes 256a + b.
C7_PushBigEndian ==
  [][(/\ Fetching
      /\ Opcode \in PushOpcodes
      /\ program_counter + kOpcodeInfo[Opcode] < Len(bytecode))
       => LET n == kOpcodeInfo[Opcode]
              last == program_counter + 1 + n
          IN /\ Len(stack') = Len(stack) + 1
             /\ \A j \in 1..kWordSize :
                  Byte(Top(stack'), j) = IF j <= n THEN bytecode[last + 1 - j] ELSE 0
             /\ Opcode = kPush0 => Top(stack') = ZeroWord
             /\ Opcode = kPush1 => SmallValue(Top(stack')) = bytecode[last]
             /\ Opcode = kPush2 =>
                  SmallValue(Top(stack')) = 256 * bytecode[last - 1] + bytecode[last]]_vars

C7_Witness ==
  /\ bytecode = <<kPush2, 1, 2>>
  /\ status = "Halted"
  /\ Len(stack) = 1
  /\ SmallValue(Top(stack)) = 258

\* w + w modulo 2^256
Double(word) ==
  Eval(LAMBDA w : Word32([i \in 1..kWordSize |->
                            ((2 * Byte(w, i)) % 256) + (Byte(w, i - 1) \div 128)]),
       word)

\* w * 2^s modulo 2^256, by repeated doubling
RECURSIVE TimesPow2(_, _)
TimesPow2(w, s) ==
  IF s = 0 THEN w
  ELSE IF s = 1 THEN Double(w)
  ELSE Eval(LAMBDA half : TimesPow2(half, s - (s \div 2)), TimesPow2(w, s \div 2))

AtLeast256(w) == Len(w) >= 2

\* C8: SHL on at least 2 items replaces the top two items, shift on top of
\* value, by (value * 2^shift) mod 2^256: value itself for shift 0, zero for
\* every shift >= 256; the stack is one item shorter.
C8_ShlSemantics ==
  [][(Fetching /\ Opcode = kShl /\ Len(stack) >= 2) =>
       LET shift == Top(stack)
           value == Top(Pop(stack))
       IN /\ status' = "Running"
          /\ Len(stack') = Len(stack) - 1
          /\ shift = ZeroWord => Top(stack') = value
          /\ AtLeast256(shift) => Top(stack') = ZeroWord
          /\ ~AtLeast256(shift) => Top(stack') = TimesPow2(value, Byte(shift, 1))]_vars

C8_Witness ==
  /\ status \in {"Running", "Halted"}
  /\ fetched >= 0
  /\ bytecode[fetched + 1] = kShl
  /\ Len(stack) >= 1
  /\ Byte(Top(stack), kWordSize) = \h80
  /\ \A i \in 1..(kWordSize - 1) : Byte(Top(stack), i) = 0

\* C9: DUPk, k in {2, 3}, on a stack of at least k items leaves the stack as
\* it was and adds on top a copy of the k-th item from the top.
C9_DupKeepsStack ==
  [][(/\ Fetching
      /\ Opcode \in {kDup2, kDup3}
      /\ Len(stack) >= (IF Opcode = kDup2 THEN 2 ELSE 3))
       => LET k == IF Opcode = kDup2 THEN 2 ELSE 3
          IN stack' = Append(stack, stack[Len(stack) + 1 - k])]_vars

C9_Witness ==
  /\ status \in {"Running", "Halted"}
  /\ fetched >= 0
  /\ bytecode[fetched + 1] = kDup3
  /\ Len(stack) = 4
  /\ stack[4] = stack[1]
  /\ stack[1] # stack[2]
  /\ stack[1] # stack[3]
  /\ stack[2] # stack[3]

\* C10 as stated: every run eventually leaves Running.
C10_AlwaysTerminates == <>(status # "Running")

\* the last step was a JUMP that succeeded
JumpTaken ==
  /\ status = "Running"
  /\ fetched >= 0
  /\ bytecode[fetched + 1] = kJump

\* C10, amended: every run eventually leaves Running, unless it takes
\* successful JUMPs again and again for ever.
C10_TerminatesUnlessJumping == <>(status # "Running") \/ []<>JumpTaken

\* a jump back to an offset at or before the JUMP itself
C10_Witness ==
  /\ JumpTaken
  /\ LoopCondition(Ctx)
  /\ program_counter <= fetched

\* C11: Halted and Aborted are terminal: in a further Interpret call on the
\* same Interpreter, with no new load, no instruction is carried out (no step
\* leaves the run Running) and program_counter, stack and memory stay as
\* they were.
C11_TerminalStatesStay ==
  [][(calls >= 2 /\ status = "Running") =>
       /\ status' # "Running"
       /\ UNCHANGED <<program_counter, stack, memory>>]_vars

\* the number of bytes of an instruction: the opcode and its immediate bytes
InstructionLength(opcode) ==
  CASE opcode = kPush1 -> 2
    [] opcode = kPush2 -> 3
    [] opcode = kPush12 -> 13
    [] OTHER -> 1

\* C12: every successful step of an opcode other than JUMP adds to
\* program_counter 1 + the immediate length of the opcode (1, and 2 for PUSH1,
\* 3 for PUSH2, 13 for PUSH12); the run becomes Halted exactly when
\* program_counter is at or past the bytecode length at the top of the loop.
C12_AdvanceByLength ==
  [][/\ (Fetching /\ Opcode # kJump /\ status' = "Running")
          => program_counter' = program_counter + InstructionLength(Opcode)
     /\ (status' = "Halted")
          <=> (status = "Running" /\ program_counter >= Len(bytecode))]_vars

\* a PUSH12 has been stepped over and the run has halted behind its immediates
C12_Witness ==
  /\ status = "Halted"
  /\ fetched >= 0
  /\ bytecode[fetched + 1] = kPush12
  /\ program_counter = fetched + 13
  /\ program_counter = Len(bytecode)
  /\ Len(stack) = 1

\* the offsets of the immediate bytes of the instructions of bc, the
\* instructions being laid out one after the other from offset pc on
RECURSIVE ImmediateOffsets(_, _)
ImmediateOffsets(bc, pc) ==
  IF pc >= Len(bc) THEN {}
  ELSE LET n == InstructionLength(bc[pc + 1])
       IN {i \in (pc + 1)..(pc + n - 1) : i < Len(bc)} \cup ImmediateOffsets(bc, pc + n)

\* C13: a byte that is an immediate operand of a PUSHn is never fetched and
\* dispatched as an opcode, whatever the bytecode, jumps into the immediate
\* bytes of a PUSHn included.
C13_ImmediatesNeverFetched ==
  fetched >= 0 => fetched \notin ImmediateOffsets(bytecode, 0)

\* C14: DUP2 dispatched on fewer than 2 items, and DUP3 on fewer than 3,
\* aborts the run with StackUnderflow and leaves the stack as it was.
C14_DupUnderflowAborts ==
  [][(/\ Fetching
      /\ Opcode \in {kDup2, kDup3}
      /\ Len(stack) < (IF Opcode = kDup2 THEN 2 ELSE 3))
       => /\ status' = "Aborted"
          /\ fault' = "StackUnderflow"
          /\ stack' = stack]_vars

\* C15: no MSTORE and no MLOAD reads or writes a byte outside the memory
\* array: the 32 bytes it touches from its offset on all have indices below
\* the capacity, so the step has no undefined behaviour.
C15_MemoryAccessInside ==
  [][(Fetching /\ Opcode \in {kMStore, kMLoad} /\ ~ub) =>
       /\ ~ub'
       /\ status' # "Crashed"]_vars

\* C16: every run starts with program_counter = 0, an empty stack and
\* all-zero memory, the run started by the first Interpret call after a
\* LoadBytecode on an Interpreter that has run an earlier program included.
C16_RunStartsFresh ==
  [][(status = "Idle" /\ status' = "Running") =>
       /\ program_counter' = 0
       /\ stack' = <<>>
       /\ memory' = ZeroMemory]_vars

\* C17 as stated: after a successful JUMP to target t the next fetch is at
\* offset t itself.
C17_NextFetchAtTarget ==
  [][(Fetching /\ Opcode = kJump /\ status' = "Running") =>
       program_counter' = SizeT(Top(stack))]_vars

\* C17, amended: after a successful JUMP to target t, the byte at offset t is
\* JUMPDEST and the next fetch is at offset t + 1, behind the JUMPDEST byte.
C17_NextFetchBehindTarget ==
  [][(Fetching /\ Opcode = kJump /\ status' = "Running") =>
       LET t == SizeT(Top(stack))
       IN /\ t < Len(bytecode)
          /\ bytecode[t + 1] = kJumpDest
          /\ program_counter' = t + 1]_vars

\* a JUMP has succeeded and the loop is about to fetch the byte behind the
\* JUMPDEST it jumped to
C17_Witness ==
  /\ JumpTaken
  /\ LoopCondition(Ctx)
  /\ program_counter >= 1
  /\ bytecode[program_counter] = kJumpDest
  /\ Opcode # kJumpDest

\* the word is an offset whose 32 bytes lie inside the memory
StoreInside(w) == SmallValue(w) >= 0 /\ SmallValue(w) + kWordSize <= kMemorySize

C19_BytecodeReadsInside ==
  [][(Fetching /\ Opcode \in PushOpcodes \cup {kJump} /\ ~ub) =>
       /\ ~ub'
       /\ status' # "Crashed"]_vars

\* C20: a JUMP succeeds only if the popped word, as a full 256-bit unsigned
\* integer, is an index below the bytecode length whose byte is JUMPDEST.
C20_JumpTargetFullWord ==
  [][(Fetching /\ Opcode = kJump /\ Len(stack) >= 1 /\ status' = "Running") =>
       /\ SmallValue(Top(stack)) >= 0
       /\ SmallValue(Top(stack)) < Len(bytecode)
       /\ bytecode[SmallValue(Top(stack)) + 1] = kJumpDest]_vars

====
